---- MODULE Spec2Model ----
(***************************************************************************)
(* Model of the Gmail Tasks <-> iCloud Reminders synchronisation service:  *)
(* sync_service.run_sync and its two per-item helpers, the two store       *)
(* adapters (google_tasks, icloud_reminders), the task_mappings and        *)
(* sync_logs tables, and the two entry points that call run_sync (the      *)
(* scheduler job and POST /sync/trigger).                                  *)
(*                                                                         *)
(* A run is modelled step by step: one action per store call together      *)
(* with the database commit that follows it in the code.  Every run owns   *)
(* a SQLAlchemy session; attribute assignments that the code has not       *)
(* committed yet are kept in the run's `pend` set and reach the committed  *)
(* table `mappings` only at the next db.commit() of that session.          *)
(***************************************************************************)
EXTENDS Integers, Sequences, FiniteSets, TLC

(***************************************************************************)
(* Bounds of the model.                                                    *)
(***************************************************************************)
MaxG == 3        \* remote task ids are 1..MaxG
MaxL == 3        \* local reminder ids are 1..MaxL
InitG == 1       \* remote tasks that may exist before the first run
InitL == 1       \* local reminders that may exist before the first run
SeqRuns == 2     \* run_sync calls in a behaviour of the serialised specification
SeqFail == 1     \* store calls that may fail, serialised specification
SeqExt == 1      \* changes made by the user, serialised specification
ConcRuns == 2    \* run_sync calls in a behaviour of the unrestricted specification
ConcFail == 1    \* store calls that may fail, unrestricted specification
ConcExt == 1     \* calls of the scheduler endpoints, unrestricted specification
StopRuns == 2    \* run_sync calls in a behaviour of the fair specification with endpoints
StopFail == 1    \* store calls that may fail, fair specification with endpoints
StopExt == 1     \* calls of the scheduler endpoints, fair specification with endpoints
LiveRuns == 2    \* run_sync calls in a behaviour of the fair specification
LiveFail == 1    \* store calls that may fail, fair specification

GIds == 1..MaxG
LIds == 1..MaxL
Procs == {"timer", "manual"}

\* models.SyncDirection
GMAIL_TO_ICLOUD == "gmail_to_icloud"
ICLOUD_TO_GMAIL == "icloud_to_gmail"
BIDIRECTIONAL == "bidirectional"
SyncDirection == {GMAIL_TO_ICLOUD, ICLOUD_TO_GMAIL, BIDIRECTIONAL}

\* every run handled as a bidirectional one, whatever its direction
IsBidirectionalAlways(dir) == TRUE

\* the direction tests of run_sync: a run lists both sides and takes the
\* bidirectional branch exactly when its direction is bidirectional
IsBidirectional(dir) == dir = BIDIRECTIONAL

\* models.SyncStatus
RUNNING == "running"
SUCCESS == "success"
FAILED == "failed"

\* error_message = None
NoError == "<none>"
ErrGoogle == "Google Tasks is not connected. Please authenticate first."
ErrICloud == "iCloud is not connected. Please configure credentials first."
ErrCalendar == "iCloud calendar not configured. Please select a reminder list."
ErrListTasks == "list_tasks failed"
ErrListReminders == "list_reminders failed"
ErrUpdateTask == "update_task failed"
ErrUpdateReminder == "update_reminder failed"

VARIABLES
    gmail,        \* remote store: task id -> task (Google Tasks resource)
    icloud,       \* local store: reminder id -> reminder (EKReminder)
    nextG,        \* next id the remote store hands out
    nextL,        \* next id the local store hands out
    conn,         \* [google, icloud, calendar]: the three preconditions
    mappings,     \* committed rows of task_mappings, in primary-key order
    logs,         \* committed rows of sync_logs, in primary-key order
    run,          \* per caller: the local state of its run_sync call
    sched,        \* the jobs of the BackgroundScheduler: a sequence of [id, minutes]
    settings,     \* the persisted sync_interval_minutes, 0 if the key has no row
    called,       \* history: the last call that reached the scheduler
    budget,       \* [runs, fail, ext]: what the behaviour may still do
    createdFor,   \* history: reminders created for each remote task id
    streak        \* history: consecutive undisturbed bidirectional runs

vars == <<gmail, icloud, nextG, nextL, conn, mappings, logs, run, sched,
          settings, called, budget, createdFor, streak>>

(***************************************************************************)
(* Items of the two stores.                                                *)
(***************************************************************************)
NoTask == [present |-> FALSE, title |-> "", notes |-> "", status |-> "needsAction"]
NoReminder == [present |-> FALSE, summary |-> "", description |-> "", completed |-> FALSE]

Task(t, n, s) == [present |-> TRUE, title |-> t, notes |-> n, status |-> s]
Reminder(t, n, c) == [present |-> TRUE, summary |-> t, description |-> n, completed |-> c]

\* "completed" if is_completed else "needsAction"
StatusOf(c) == IF c THEN "completed" ELSE "needsAction"
\* task.get("status") == "completed"
IsCompleted(task) == task.status = "completed"

Min(S) == CHOOSE x \in S : \A y \in S : x <= y

(***************************************************************************)
(* The task_mappings table.  A row is [gid, lid, title, lkc]; lid = 0 is   *)
(* a NULL icloud_reminder_uid.  The index of a row in the sequence is its  *)
(* primary key.                                                            *)
(***************************************************************************)
\* the row inserted before the id of the created reminder is known
RowGmailOnly(g, l, t) == [gid |-> g, lid |-> 0, title |-> t, lkc |-> FALSE]

Row(g, l, t) == [gid |-> g, lid |-> l, title |-> t, lkc |-> FALSE]

\* the query filtering on the wrong column
FindByGmailIdWrongColumn(table, g) ==
    IF \E i \in DOMAIN table : table[i].lid = g
    THEN Min({i \in DOMAIN table : table[i].lid = g}) ELSE 0

\* db.query(TaskMapping).filter(TaskMapping.gmail_task_id == id).first()
FindByGmailId(table, g) ==
    IF \E i \in DOMAIN table : table[i].gid = g
    THEN Min({i \in DOMAIN table : table[i].gid = g}) ELSE 0

\* db.query(TaskMapping).filter(TaskMapping.icloud_reminder_uid == id).first()
FindByICloudUid(table, l) ==
    IF \E i \in DOMAIN table : table[i].lid = l
    THEN Min({i \in DOMAIN table : table[i].lid = l}) ELSE 0

\* the constraint on icloud_reminder_uid left out
UniqueGmailIdOnly(table, row) ==
    \A i \in DOMAIN table : table[i].gid # row.gid

\* the unique constraints of TaskMapping, checked by the INSERT
UniqueOK(table, row) ==
    /\ \A i \in DOMAIN table : table[i].gid # row.gid
    /\ row.lid # 0 => \A i \in DOMAIN table : table[i].lid # row.lid

\* mapping.last_known_completed = v, not yet committed
SetPending(pend, i, v) == {x \in pend : x[1] # i} \cup {<<i, v>>}

\* db.commit(): the session's pending attribute values reach the table
Commit(pend, table) ==
    [i \in DOMAIN table |->
        IF \E x \in pend : x[1] = i
        THEN [table[i] EXCEPT !.lkc = (CHOOSE x \in pend : x[1] = i)[2]]
        ELSE table[i]]

(***************************************************************************)
(* The store adapters.  A partial update is a record holding only the      *)
(* fields that are passed (not None).                                      *)
(***************************************************************************)
\* icloud_reminders.update_reminder on an existing reminder
update_reminder(store, id, f) ==
    [store EXCEPT ![id] =
        [present |-> TRUE,
         summary |-> IF "summary" \in DOMAIN f THEN f.summary ELSE @.summary,
         description |-> IF "description" \in DOMAIN f THEN f.description ELSE @.description,
         completed |-> IF "completed" \in DOMAIN f THEN f.completed ELSE @.completed]]

\* icloud_reminders.create_reminder: no completed argument exists
create_reminder(store, id, summary, description) ==
    [store EXCEPT ![id] = Reminder(summary, IF description # "" THEN description ELSE "", FALSE)]

\* google_tasks.update_task on an existing task
update_task(store, id, f) ==
    [store EXCEPT ![id] =
        [present |-> TRUE,
         title |-> IF "title" \in DOMAIN f THEN f.title ELSE @.title,
         notes |-> IF "notes" \in DOMAIN f THEN f.notes ELSE @.notes,
         status |-> IF "status" \in DOMAIN f THEN f.status ELSE @.status]]

\* google_tasks.create_task
\* the task inserted without the status it was given
CreateTaskNoStatus(store, id, title, notes, status) ==
    [store EXCEPT ![id] = Task(title, IF notes # "" THEN notes ELSE "", "needsAction")]

create_task(store, id, title, notes, status) ==
    [store EXCEPT ![id] = Task(title, IF notes # "" THEN notes ELSE "", status)]

\* {t["id"]: t for t in tasks if t.get("title")}
\* the listing that keeps the tasks without a title
TasksMapAll(store) == [i \in GIds |-> IF store[i].present THEN store[i] ELSE NoTask]

TasksMap(store) ==
    [i \in GIds |-> IF store[i].present /\ store[i].title # "" THEN store[i] ELSE NoTask]

\* {r["id"]: r for r in reminders if r.get("summary")}
RemindersMap(store) ==
    [i \in LIds |-> IF store[i].present /\ store[i].summary # "" THEN store[i] ELSE NoReminder]

(***************************************************************************)
(* The local state of one run_sync call.  The fields nList .. seen are     *)
(* history of the run: the store calls it issued, the table when it        *)
(* started, the mapped items whose helper update or completion push        *)
(* raised, the items whose create raised, the items whose INSERT was       *)
(* rejected, whether a call of Phase A                                     *)
(* raised, what the connection checks saw, whether an earlier run of the   *)
(* scheduler job ended with status failed, the budget when the run began,  *)
(* the items whose create call failed in the caller's previous run, and    *)
(* the update calls the run issued.                                        *)
(***************************************************************************)
IdleRun ==
    [pc |-> "idle", dir |-> BIDIRECTIONAL, log |-> 0,
     gmap |-> [i \in GIds |-> NoTask], imap |-> [i \in LIds |-> NoReminder],
     mlist |-> <<>>, idx |-> 1, cur |-> 0, m |-> 0, pend |-> {},
     tasks_synced |-> 0, reminders_synced |-> 0, err |-> NoError,
     nList |-> 0, nCreate |-> 0, nUpdate |-> 0, startTable |-> <<>>,
     updFailed |-> {}, createFailed |-> {}, conflicts |-> {}, aFailed |-> FALSE,
     seen |-> [google |-> TRUE, icloud |-> TRUE, calendar |-> TRUE],
     fireFailed |-> FALSE, budget0 |-> [runs |-> 0, fail |-> 0, ext |-> 0],
     failedBefore |-> {}, updates |-> {}]

\* an exception escapes to the handler of run_sync
Raise(r, msg) == [r EXCEPT !.pc = "finish", !.err = msg]

\* whether the next store call may be made to fail
FailChoices == IF budget.fail > 0 THEN {FALSE, TRUE} ELSE {FALSE}
Spend(fail) == [budget EXCEPT !.fail = IF fail THEN @ - 1 ELSE @]

\* the check of the configured reminder list left out
CheckConnectionsNoCalendar(c) ==
    IF ~c.google THEN ErrGoogle
    ELSE IF ~c.icloud THEN ErrICloud
    ELSE NoError

\* the three checks that open the try block of run_sync
CheckConnections(c) ==
    IF ~c.google THEN ErrGoogle
    ELSE IF ~c.icloud THEN ErrICloud
    ELSE IF ~c.calendar THEN ErrCalendar
    ELSE NoError

\* the handler not setting the status
FinalStatusHandlerSilent(err) == IF err = NoError THEN SUCCESS ELSE RUNNING

\* sync_log.status as set at the end of the try block or in the handler
FinalStatus(err) == IF err = NoError THEN SUCCESS ELSE FAILED

\* {m.gmail_task_id for m in mappings}, {m.icloud_reminder_uid for m in mappings}
MappedGmailIds(ml) == {ml[i].gid : i \in DOMAIN ml}
MappedICloudIds(ml) == {ml[i].lid : i \in DOMAIN ml}

(***************************************************************************)
(* Completion reconciliation of one mapped pair (Phase A): the branch of   *)
(* the if/elif chain that is taken, the update calls to issue, in order,   *)
(* and the new last_known_completed.                                       *)
(***************************************************************************)
\* a change on one side pushed without moving the baseline
ResolveStaleBaseline(gmail_completed, icloud_completed, last_known) ==
    LET gmail_changed == gmail_completed # last_known
        icloud_changed == icloud_completed # last_known
        final_state == gmail_completed \/ icloud_completed
    IN  IF gmail_changed /\ ~icloud_changed
        THEN [branch |-> "gmail",
              calls |-> <<[side |-> "icloud", val |-> gmail_completed]>>,
              set |-> FALSE, lkc |-> last_known]
        ELSE IF icloud_changed /\ ~gmail_changed
        THEN [branch |-> "icloud",
              calls |-> <<[side |-> "gmail", val |-> icloud_completed]>>,
              set |-> FALSE, lkc |-> last_known]
        ELSE IF gmail_changed /\ icloud_changed
        THEN [branch |-> "both",
              calls |->
                (IF gmail_completed # final_state
                 THEN <<[side |-> "gmail", val |-> final_state]>> ELSE <<>>)
                \o (IF icloud_completed # final_state
                    THEN <<[side |-> "icloud", val |-> final_state]>> ELSE <<>>),
              set |-> TRUE, lkc |-> final_state]
        ELSE [branch |-> "none", calls |-> <<>>, set |-> FALSE, lkc |-> last_known]

\* both sides changed: the final state pushed to both stores whatever they hold
ResolveAlwaysPush(gmail_completed, icloud_completed, last_known) ==
    LET gmail_changed == gmail_completed # last_known
        icloud_changed == icloud_completed # last_known
        final_state == gmail_completed \/ icloud_completed
    IN  IF gmail_changed /\ ~icloud_changed
        THEN [branch |-> "gmail",
              calls |-> <<[side |-> "icloud", val |-> gmail_completed]>>,
              set |-> TRUE, lkc |-> gmail_completed]
        ELSE IF icloud_changed /\ ~gmail_changed
        THEN [branch |-> "icloud",
              calls |-> <<[side |-> "gmail", val |-> icloud_completed]>>,
              set |-> TRUE, lkc |-> icloud_completed]
        ELSE IF gmail_changed /\ icloud_changed
        THEN [branch |-> "both",
              calls |->
                <<[side |-> "gmail", val |-> final_state],
                  [side |-> "icloud", val |-> final_state]>>,
              set |-> TRUE, lkc |-> final_state]
        ELSE [branch |-> "none", calls |-> <<>>, set |-> FALSE, lkc |-> last_known]

\* the completion pushed to iCloud also when neither side changed
ResolveNonePushes(gmail_completed, icloud_completed, last_known) ==
    LET gmail_changed == gmail_completed # last_known
        icloud_changed == icloud_completed # last_known
        final_state == gmail_completed \/ icloud_completed
    IN  IF gmail_changed /\ ~icloud_changed
        THEN [branch |-> "gmail",
              calls |-> <<[side |-> "icloud", val |-> gmail_completed]>>,
              set |-> TRUE, lkc |-> gmail_completed]
        ELSE IF icloud_changed /\ ~gmail_changed
        THEN [branch |-> "icloud",
              calls |-> <<[side |-> "gmail", val |-> icloud_completed]>>,
              set |-> TRUE, lkc |-> icloud_completed]
        ELSE IF gmail_changed /\ icloud_changed
        THEN [branch |-> "both",
              calls |->
                (IF gmail_completed # final_state
                 THEN <<[side |-> "gmail", val |-> final_state]>> ELSE <<>>)
                \o (IF icloud_completed # final_state
                    THEN <<[side |-> "icloud", val |-> final_state]>> ELSE <<>>),
              set |-> TRUE, lkc |-> final_state]
        ELSE [branch |-> "none",
              calls |-> <<[side |-> "icloud", val |-> gmail_completed]>>,
              set |-> TRUE, lkc |-> gmail_completed]

\* the both-changed branch tested first, and for a change on either side
ResolveBothFirst(gmail_completed, icloud_completed, last_known) ==
    LET gmail_changed == gmail_completed # last_known
        icloud_changed == icloud_completed # last_known
        final_state == gmail_completed \/ icloud_completed
    IN  IF gmail_changed \/ icloud_changed
        THEN [branch |-> "both",
              calls |->
                (IF gmail_completed # final_state
                 THEN <<[side |-> "gmail", val |-> final_state]>> ELSE <<>>)
                \o (IF icloud_completed # final_state
                    THEN <<[side |-> "icloud", val |-> final_state]>> ELSE <<>>),
              set |-> TRUE, lkc |-> final_state]
        ELSE IF gmail_changed /\ ~icloud_changed
        THEN [branch |-> "gmail",
              calls |-> <<[side |-> "icloud", val |-> gmail_completed]>>,
              set |-> TRUE, lkc |-> gmail_completed]
        ELSE IF icloud_changed /\ ~gmail_changed
        THEN [branch |-> "icloud",
              calls |-> <<[side |-> "gmail", val |-> icloud_completed]>>,
              set |-> TRUE, lkc |-> icloud_completed]
        ELSE IF gmail_changed /\ icloud_changed
        THEN [branch |-> "both",
              calls |->
                (IF gmail_completed # final_state
                 THEN <<[side |-> "gmail", val |-> final_state]>> ELSE <<>>)
                \o (IF icloud_completed # final_state
                    THEN <<[side |-> "icloud", val |-> final_state]>> ELSE <<>>),
              set |-> TRUE, lkc |-> final_state]
        ELSE [branch |-> "none", calls |-> <<>>, set |-> FALSE, lkc |-> last_known]

\* lines 226-259 of run_sync
Resolve(gmail_completed, icloud_completed, last_known) ==
    LET gmail_changed == gmail_completed # last_known
        icloud_changed == icloud_completed # last_known
        final_state == gmail_completed \/ icloud_completed
    IN  IF gmail_changed /\ ~icloud_changed
        THEN [branch |-> "gmail",
              calls |-> <<[side |-> "icloud", val |-> gmail_completed]>>,
              set |-> TRUE, lkc |-> gmail_completed]
        ELSE IF icloud_changed /\ ~gmail_changed
        THEN [branch |-> "icloud",
              calls |-> <<[side |-> "gmail", val |-> icloud_completed]>>,
              set |-> TRUE, lkc |-> icloud_completed]
        ELSE IF gmail_changed /\ icloud_changed
        THEN [branch |-> "both",
              calls |->
                (IF gmail_completed # final_state
                 THEN <<[side |-> "gmail", val |-> final_state]>> ELSE <<>>)
                \o (IF icloud_completed # final_state
                    THEN <<[side |-> "icloud", val |-> final_state]>> ELSE <<>>),
              set |-> TRUE, lkc |-> final_state]
        ELSE [branch |-> "none", calls |-> <<>>, set |-> FALSE, lkc |-> last_known]

\* an update call as the run's history keeps it: the item it was issued for,
\* and whether that item had an empty title in the store at that moment
TaskUpdate(store, id) ==
    [side |-> "g", id |-> id, empty |-> store[id].present /\ store[id].title = ""]
ReminderUpdate(store, id) ==
    [side |-> "l", id |-> id, empty |-> store[id].present /\ store[id].summary = ""]

\* issue calls[k..]; call number f raises, and so does a call on a missing item
RECURSIVE DoCalls(_, _, _, _, _, _)
DoCalls(calls, k, f, g, l, row) ==
    IF k > Len(calls) THEN [g |-> g, l |-> l, issued |-> k - 1, err |-> NoError]
    ELSE IF calls[k].side = "icloud"
    THEN IF k = f \/ ~l[row.lid].present
         THEN [g |-> g, l |-> l, issued |-> k, err |-> ErrUpdateReminder]
         ELSE DoCalls(calls, k + 1, f, g,
                      update_reminder(l, row.lid, [completed |-> calls[k].val]), row)
    ELSE IF k = f \/ ~g[row.gid].present
         THEN [g |-> g, l |-> l, issued |-> k, err |-> ErrUpdateTask]
         ELSE DoCalls(calls, k + 1, f,
                      update_task(g, row.gid, [status |-> StatusOf(calls[k].val)]), l, row)

(***************************************************************************)
(* The per-item helpers.  Each returns the effect of its store call and of *)
(* the commit that follows: the table, the session's pending values, the   *)
(* store, the next fresh id, the returned mapping (0 for None), which call *)
(* was issued and whether it succeeded.  r.m is the row the helper's query *)
(* found (0 if none), r.cur the id of the item.                            *)
(***************************************************************************)
\* the create branch without its try/except
CaughtUpdateOnly(call) == call \in {"update"}

\* the commit of the create branch placed after its try/except
CaughtStoreCallsOnly(call) == call \in {"update", "create"}

\* what the try/except blocks of the helpers swallow: a failing store call,
\* and the IntegrityError of the commit that inserts the mapping
CaughtInHelper(call) == call \in {"update", "create", "commit"}

\* sync_gmail_task_to_icloud, from the branch on `mapping` to the return
sync_gmail_task_to_icloud(table, store, nl, r, fail) ==
    LET task == r.gmap[r.cur]
        m == r.m
    IN  IF m # 0 /\ table[m].lid # 0
        THEN IF fail \/ ~store[table[m].lid].present
             THEN [table |-> table, pend |-> r.pend, store |-> store, next |-> nl,
                   result |-> m, call |-> "update", ok |-> FALSE]
             ELSE [table |-> Commit(r.pend, [table EXCEPT ![m].title = task.title]),
                   pend |-> {},
                   store |-> update_reminder(store, table[m].lid,
                                [summary |-> task.title, description |-> task.notes,
                                 completed |-> IsCompleted(task)]),
                   next |-> nl, result |-> m, call |-> "update", ok |-> TRUE]
        ELSE IF fail \/ nl > MaxL
             THEN [table |-> table, pend |-> r.pend, store |-> store, next |-> nl,
                   result |-> 0, call |-> "create", ok |-> FALSE]
             ELSE LET store2 == create_reminder(store, nl, task.title, task.notes)
                  IN  IF m # 0
                      THEN [table |-> Commit(r.pend, [table EXCEPT ![m].lid = nl,
                                                                   ![m].title = task.title]),
                            pend |-> {}, store |-> store2, next |-> nl + 1,
                            result |-> m, call |-> "create", ok |-> TRUE]
                      ELSE IF UniqueOK(table, Row(r.cur, nl, task.title))
                      THEN [table |-> Append(Commit(r.pend, table), Row(r.cur, nl, task.title)),
                            pend |-> {}, store |-> store2, next |-> nl + 1,
                            result |-> Len(table) + 1, call |-> "create", ok |-> TRUE]
                      \* IntegrityError: the commit rolls the session back
                      ELSE [table |-> table, pend |-> {}, store |-> store2, next |-> nl + 1,
                            result |-> 0, call |-> "create", ok |-> TRUE]

\* update_data of sync_icloud_reminder_to_gmail: notes only when non-empty
UpdateData(rem) ==
    IF rem.description # ""
    THEN [title |-> rem.summary, notes |-> rem.description, status |-> StatusOf(rem.completed)]
    ELSE [title |-> rem.summary, status |-> StatusOf(rem.completed)]

\* sync_icloud_reminder_to_gmail, from the branch on `mapping` to the return
sync_icloud_reminder_to_gmail(table, store, ng, r, fail) ==
    LET rem == r.imap[r.cur]
        m == r.m
    IN  IF m # 0 /\ table[m].gid # 0
        THEN IF fail \/ ~store[table[m].gid].present
             THEN [table |-> table, pend |-> r.pend, store |-> store, next |-> ng,
                   result |-> m, call |-> "update", ok |-> FALSE]
             ELSE [table |-> Commit(r.pend, [table EXCEPT ![m].title = rem.summary]),
                   pend |-> {},
                   store |-> update_task(store, table[m].gid, UpdateData(rem)),
                   next |-> ng, result |-> m, call |-> "update", ok |-> TRUE]
        ELSE IF fail \/ ng > MaxG
             THEN [table |-> table, pend |-> r.pend, store |-> store, next |-> ng,
                   result |-> 0, call |-> "create", ok |-> FALSE]
             ELSE LET store2 == create_task(store, ng, rem.summary, rem.description,
                                            StatusOf(rem.completed))
                  IN  IF m # 0
                      THEN [table |-> Commit(r.pend, [table EXCEPT ![m].gid = ng,
                                                                   ![m].title = rem.summary]),
                            pend |-> {}, store |-> store2, next |-> ng + 1,
                            result |-> m, call |-> "create", ok |-> TRUE]
                      ELSE IF UniqueOK(table, Row(ng, r.cur, rem.summary))
                      THEN [table |-> Append(Commit(r.pend, table), Row(ng, r.cur, rem.summary)),
                            pend |-> {}, store |-> store2, next |-> ng + 1,
                            result |-> Len(table) + 1, call |-> "create", ok |-> TRUE]
                      ELSE [table |-> table, pend |-> {}, store |-> store2, next |-> ng + 1,
                            result |-> 0, call |-> "create", ok |-> TRUE]

\* what run_sync does with the helper's return value, and the history of the call
\* every item the helper was called for counted, mapping or not
CountedAlways(eff, escaped) == ~escaped

\* `if mapping:` after a helper call (lines 279, 287, 294, 301)
Counted(eff, escaped) == eff.result # 0 /\ ~escaped

AfterHelper(r, eff, completed, side) ==
    LET conflict == eff.call = "create" /\ eff.ok /\ eff.result = 0
        escaped == \/ ~eff.ok /\ ~CaughtInHelper(eff.call)
                   \/ conflict /\ ~CaughtInHelper("commit")
        r1 == [r EXCEPT
                 !.pend = IF eff.result # 0 /\ ~escaped
                          THEN SetPending(eff.pend, eff.result, completed) ELSE eff.pend,
                 !.tasks_synced = IF side = "g" /\ Counted(eff, escaped) THEN @ + 1 ELSE @,
                 !.reminders_synced = IF side = "l" /\ Counted(eff, escaped) THEN @ + 1 ELSE @,
                 !.idx = r.cur + 1,
                 !.pc = IF side = "g" THEN "g_next" ELSE "l_next",
                 !.nCreate = IF eff.call = "create" THEN @ + 1 ELSE @,
                 !.nUpdate = IF eff.call = "update" THEN @ + 1 ELSE @,
                 !.updFailed = IF eff.call = "update" /\ ~eff.ok THEN @ \cup {eff.result} ELSE @,
                 !.createFailed = IF eff.call = "create" /\ ~eff.ok
                                  THEN @ \cup {<<side, r.cur>>} ELSE @,
                 !.conflicts = IF conflict THEN @ \cup {<<side, r.cur>>} ELSE @]
    IN  IF escaped
        THEN Raise(r1, IF side = "g" THEN ErrUpdateReminder ELSE ErrUpdateTask)
        ELSE r1

(***************************************************************************)
(* SyncScheduler.  The job store of the BackgroundScheduler is a sequence  *)
(* of jobs [id, minutes]; a call returns the new jobs and whether it       *)
(* raised.                                                                 *)
(***************************************************************************)
\* SyncScheduler._job_id
JobId == "sync_job"

\* BackgroundScheduler.get_job: the position of the job, 0 for None
get_job(jobs, id) ==
    IF \E k \in DOMAIN jobs : jobs[k].id = id
    THEN Min({k \in DOMAIN jobs : jobs[k].id = id}) ELSE 0

\* BackgroundScheduler.remove_job: JobLookupError when there is no such job
remove_job(jobs, id) ==
    IF get_job(jobs, id) = 0 THEN [jobs |-> jobs, raised |-> TRUE]
    ELSE [jobs |-> SelectSeq(jobs, LAMBDA j : j.id # id), raised |-> FALSE]

\* BackgroundScheduler.add_job with an IntervalTrigger(minutes)
add_job(jobs, id, minutes, replace_existing) ==
    LET k == get_job(jobs, id)
        j == [id |-> id, minutes |-> minutes]
    IN  IF k = 0 THEN [jobs |-> Append(jobs, j), raised |-> FALSE]
        ELSE IF replace_existing THEN [jobs |-> [jobs EXCEPT ![k] = j], raised |-> FALSE]
        ELSE [jobs |-> jobs, raised |-> TRUE]

\* the job removed under another id
StopSyncJobWrongId(jobs) ==
    [jobs |-> remove_job(jobs, "sync").jobs, raised |-> FALSE]

\* SyncScheduler.stop_sync_job: the exception of remove_job is swallowed
stop_sync_job(jobs) ==
    [jobs |-> remove_job(jobs, JobId).jobs, raised |-> FALSE]

\* the job added without removing or replacing the one that exists
StartSyncJobNoReplace(jobs, interval_minutes) ==
    [jobs |-> Append(jobs, [id |-> JobId, minutes |-> interval_minutes]), raised |-> FALSE]

\* SyncScheduler.start_sync_job with an interval: stop, then add
start_sync_job(jobs, interval_minutes) ==
    LET stopped == stop_sync_job(jobs)
        added == add_job(stopped.jobs, JobId, interval_minutes, TRUE)
    IN  [jobs |-> added.jobs, raised |-> stopped.raised \/ added.raised]

\* SyncScheduler.is_running
is_running(jobs) == get_job(jobs, JobId) # 0

\* the job started with the default interval when none is persisted
LifespanDefaultInterval(jobs, interval) ==
    start_sync_job(jobs, IF interval # 0 THEN interval ELSE 15)

\* main.lifespan, startup: the job is started iff an interval is persisted
lifespan(jobs, interval) ==
    IF interval # 0 THEN start_sync_job(jobs, interval)
    ELSE [jobs |-> jobs, raised |-> FALSE]

\* a failed run removes the job
JobOutcomeRemoveOnFailure(jobs, err) ==
    IF err # NoError THEN stop_sync_job(jobs).jobs ELSE jobs

\* the jobs once _run_sync_job has returned: it swallows what run_sync raises
\* and the scheduler keeps an interval job whatever its run did
JobOutcome(jobs, err) == jobs

\* the last call that reached the scheduler: its interval, whether it raised,
\* whether the job was installed and whether a run of the job was in progress
\* when it was made
Called(op, minutes, raised) ==
    [op |-> op, minutes |-> minutes, raised |-> raised,
     running |-> is_running(sched), busy |-> run["timer"].pc \notin {"idle", "done"}]

\* the application has started up
AppUp == called.op # "new"

(***************************************************************************)
(* run_sync, step by step.                                                 *)
(***************************************************************************)
\* run_sync up to the first commit: the SyncLog row is inserted as RUNNING
StartRun(p, d) ==
    /\ run[p].pc = "idle"
    /\ budget.runs > 0
    /\ budget' = [budget EXCEPT !.runs = @ - 1]
    /\ logs' = Append(logs, [status |-> RUNNING, direction |-> d, tasks_synced |-> 0,
                             reminders_synced |-> 0, error_message |-> NoError,
                             completed_at |-> FALSE])
    /\ run' = [run EXCEPT ![p] = [IdleRun EXCEPT !.pc = "check", !.dir = d,
                                                 !.log = Len(logs) + 1,
                                                 !.startTable = mappings,
                                                 !.fireFailed = run[p].fireFailed,
                                                 !.budget0 = budget',
                                                 !.failedBefore = run[p].failedBefore]]
    /\ streak' = IF d = BIDIRECTIONAL THEN (IF streak < 2 THEN streak + 1 ELSE 2) ELSE 0
    /\ UNCHANGED <<gmail, icloud, nextG, nextL, conn, mappings, sched, settings, called, createdFor>>

\* SyncScheduler._run_sync_job: a fire of the installed interval job
RunSyncJob(d) == is_running(sched) /\ StartRun("timer", d)

\* POST /sync/trigger
TriggerSync(d) == AppUp /\ StartRun("manual", d)

\* the connection checks
Check(p) ==
    /\ run[p].pc = "check"
    /\ LET e == CheckConnections(conn)
       IN  run' = [run EXCEPT ![p] =
                     IF e # NoError THEN Raise([@ EXCEPT !.seen = conn], e)
                     ELSE [@ EXCEPT !.seen = conn,
                                    !.pc = IF run[p].dir = ICLOUD_TO_GMAIL
                                           THEN "list_reminders" ELSE "list_tasks"]]
    /\ UNCHANGED <<gmail, icloud, nextG, nextL, conn, mappings, logs, sched, settings, called, budget,
                   createdFor, streak>>

\* google_tasks.list_tasks and the title filter
ListTasks(p) ==
    /\ run[p].pc = "list_tasks"
    /\ \E fail \in FailChoices :
        /\ budget' = Spend(fail)
        /\ streak' = IF fail THEN 0 ELSE streak
        /\ run' = [run EXCEPT ![p] =
                     IF fail THEN Raise([@ EXCEPT !.nList = @ + 1], ErrListTasks)
                     ELSE [@ EXCEPT !.nList = @ + 1, !.gmap = TasksMap(gmail),
                                    !.pc = IF IsBidirectional(run[p].dir)
                                           THEN "list_reminders" ELSE "g_next"]]
    /\ UNCHANGED <<gmail, icloud, nextG, nextL, conn, mappings, logs, sched, settings, called, createdFor>>

\* icloud_reminders.list_reminders and the summary filter
ListReminders(p) ==
    /\ run[p].pc = "list_reminders"
    /\ \E fail \in FailChoices :
        /\ budget' = Spend(fail)
        /\ streak' = IF fail THEN 0 ELSE streak
        /\ run' = [run EXCEPT ![p] =
                     IF fail THEN Raise([@ EXCEPT !.nList = @ + 1], ErrListReminders)
                     ELSE [@ EXCEPT !.nList = @ + 1, !.imap = RemindersMap(icloud),
                                    !.pc = IF IsBidirectional(run[p].dir)
                                           THEN "load" ELSE "l_next"]]
    /\ UNCHANGED <<gmail, icloud, nextG, nextL, conn, mappings, logs, sched, settings, called, createdFor>>

\* mappings = db.query(TaskMapping).all()
LoadMappings(p) ==
    /\ run[p].pc = "load"
    /\ run' = [run EXCEPT ![p] = [@ EXCEPT !.mlist = mappings, !.idx = 1, !.pc = "phaseA"]]
    /\ UNCHANGED <<gmail, icloud, nextG, nextL, conn, mappings, logs, sched, settings, called, budget,
                   createdFor, streak>>

\* the mappings of the Phase A loop still to process: both items in the snapshots
PairsLeft(r) ==
    {i \in DOMAIN r.mlist :
        /\ i >= r.idx
        /\ r.gmap[r.mlist[i].gid].present
        /\ r.mlist[i].lid # 0
        /\ r.imap[r.mlist[i].lid].present}

\* Phase A, one mapped pair: completion reconciliation
PhaseACompletion(p) ==
    /\ run[p].pc = "phaseA"
    /\ PairsLeft(run[p]) # {}
    /\ LET r == run[p]
           i == Min(PairsLeft(r))
           row == r.mlist[i]
           res == Resolve(IsCompleted(r.gmap[row.gid]), r.imap[row.lid].completed, row.lkc)
           upd(n) == {IF res.calls[k].side = "icloud" THEN ReminderUpdate(icloud, row.lid)
                      ELSE TaskUpdate(gmail, row.gid) : k \in 1..n}
       IN  \E f \in 0..(IF budget.fail > 0 THEN Len(res.calls) ELSE 0) :
             LET out == DoCalls(res.calls, 1, f, gmail, icloud, row)
             IN  /\ gmail' = out.g
                 /\ icloud' = out.l
                 /\ budget' = Spend(f # 0)
                 /\ streak' = IF out.err # NoError THEN 0 ELSE streak
                 /\ run' = [run EXCEPT ![p] =
                       IF out.err # NoError
                       THEN Raise([@ EXCEPT !.nUpdate = @ + out.issued, !.aFailed = TRUE,
                                            !.updFailed = @ \cup {i},
                                            !.updates = @ \cup upd(out.issued)], out.err)
                       ELSE [@ EXCEPT !.nUpdate = @ + out.issued, !.cur = i,
                                      !.updates = @ \cup upd(out.issued),
                                      !.pend = IF res.set THEN SetPending(@, i, res.lkc) ELSE @,
                                      !.pc = "phaseA_title"]]
    /\ UNCHANGED <<nextG, nextL, conn, mappings, logs, sched, settings, called, createdFor>>

\* the title push that leaves the notes of the reminder alone
TitlePushSummaryOnly(task) == [summary |-> task.title]

\* the keyword arguments of the unconditional update_reminder of Phase A
TitlePush(task) == [summary |-> task.title, description |-> task.notes]

\* Phase A, one mapped pair: title and notes pushed from Gmail to iCloud
PhaseATitle(p) ==
    /\ run[p].pc = "phaseA_title"
    /\ LET r == run[p]
           row == r.mlist[r.cur]
           task == r.gmap[row.gid]
       IN  \E fail \in FailChoices :
             LET bad == fail \/ ~icloud[row.lid].present
             IN  /\ budget' = Spend(fail)
                 /\ streak' = IF bad THEN 0 ELSE streak
                 /\ icloud' = IF bad THEN icloud
                              ELSE update_reminder(icloud, row.lid, TitlePush(task))
                 /\ run' = [run EXCEPT ![p] =
                       IF bad
                       THEN Raise([@ EXCEPT !.nUpdate = @ + 1, !.aFailed = TRUE,
                                            !.updates = @ \cup {ReminderUpdate(icloud, row.lid)}],
                                  ErrUpdateReminder)
                       ELSE [@ EXCEPT !.nUpdate = @ + 1, !.tasks_synced = @ + 1,
                                      !.updates = @ \cup {ReminderUpdate(icloud, row.lid)},
                                      !.idx = r.cur + 1, !.pc = "phaseA"]]
    /\ UNCHANGED <<gmail, nextG, nextL, conn, mappings, logs, sched, settings, called, createdFor>>

\* the commit that ends Phase A
PhaseAEnd(p) ==
    /\ run[p].pc = "phaseA"
    /\ PairsLeft(run[p]) = {}
    /\ mappings' = Commit(run[p].pend, mappings)
    /\ run' = [run EXCEPT ![p] = [@ EXCEPT !.pend = {}, !.idx = 1, !.pc = "g_next"]]
    /\ UNCHANGED <<gmail, icloud, nextG, nextL, conn, logs, sched, settings, called, budget, createdFor, streak>>

\* the Gmail tasks a loop over gmail_tasks_map still has to hand to the helper
\* a mapped task treated as new when its reminder is not in the snapshot
TasksLeftOrphansToo(r) ==
    {i \in GIds :
        /\ i >= r.idx
        /\ r.gmap[i].present
        /\ r.dir = BIDIRECTIONAL =>
              \A k \in DOMAIN r.mlist :
                  r.mlist[k].gid = i => ~r.imap[r.mlist[k].lid].present}

TasksLeft(r) ==
    {i \in GIds :
        /\ i >= r.idx
        /\ r.gmap[i].present
        /\ IsBidirectional(r.dir) => i \notin MappedGmailIds(r.mlist)}

\* the reminders a loop over icloud_reminders_map still has to hand to the helper
RemindersLeft(r) ==
    {i \in LIds :
        /\ i >= r.idx
        /\ r.imap[i].present
        /\ IsBidirectional(r.dir) => i \notin MappedICloudIds(r.mlist)}

\* next task of the loop and the helper's query, or the end of the loop
NextTask(p) ==
    /\ run[p].pc = "g_next"
    /\ LET r == run[p]
       IN  run' = [run EXCEPT ![p] =
             IF TasksLeft(r) = {}
             THEN [@ EXCEPT !.idx = 1,
                            !.pc = IF IsBidirectional(r.dir) THEN "l_next" ELSE "finish"]
             ELSE [@ EXCEPT !.cur = Min(TasksLeft(r)),
                            !.m = FindByGmailId(mappings, Min(TasksLeft(r))),
                            !.pc = "g_apply"]]
    /\ UNCHANGED <<gmail, icloud, nextG, nextL, conn, mappings, logs, sched, settings, called, budget,
                   createdFor, streak>>

\* the helper's store call and commit for one task, and the baseline assignment
ApplyTask(p) ==
    /\ run[p].pc = "g_apply"
    /\ \E fail \in FailChoices :
         LET r == run[p]
             eff == sync_gmail_task_to_icloud(mappings, icloud, nextL, r, fail)
         IN  /\ budget' = Spend(fail)
             /\ streak' = IF ~eff.ok THEN 0 ELSE streak
             /\ mappings' = eff.table
             /\ icloud' = eff.store
             /\ nextL' = eff.next
             /\ createdFor' = IF eff.call = "create" /\ eff.ok
                              THEN [createdFor EXCEPT ![r.cur] = @ + 1] ELSE createdFor
             /\ run' = [run EXCEPT ![p] =
                          [AfterHelper(r, eff, IsCompleted(r.gmap[r.cur]), "g") EXCEPT
                             !.updates = IF eff.call = "update"
                                         THEN @ \cup {ReminderUpdate(icloud, mappings[eff.result].lid)}
                                         ELSE @]]
    /\ UNCHANGED <<gmail, nextG, conn, logs, sched, settings, called>>

\* next reminder of the loop and the helper's query, or the end of the loop
NextReminder(p) ==
    /\ run[p].pc = "l_next"
    /\ LET r == run[p]
       IN  run' = [run EXCEPT ![p] =
             IF RemindersLeft(r) = {}
             THEN [@ EXCEPT !.idx = 1, !.pc = "finish"]
             ELSE [@ EXCEPT !.cur = Min(RemindersLeft(r)),
                            !.m = FindByICloudUid(mappings, Min(RemindersLeft(r))),
                            !.pc = "l_apply"]]
    /\ UNCHANGED <<gmail, icloud, nextG, nextL, conn, mappings, logs, sched, settings, called, budget,
                   createdFor, streak>>

\* the helper's store call and commit for one reminder, and the baseline assignment
ApplyReminder(p) ==
    /\ run[p].pc = "l_apply"
    /\ \E fail \in FailChoices :
         LET r == run[p]
             eff == sync_icloud_reminder_to_gmail(mappings, gmail, nextG, r, fail)
         IN  /\ budget' = Spend(fail)
             /\ streak' = IF ~eff.ok THEN 0 ELSE streak
             /\ mappings' = eff.table
             /\ gmail' = eff.store
             /\ nextG' = eff.next
             /\ run' = [run EXCEPT ![p] =
                          [AfterHelper(r, eff, r.imap[r.cur].completed, "l") EXCEPT
                             !.updates = IF eff.call = "update"
                                         THEN @ \cup {TaskUpdate(gmail, mappings[eff.result].gid)}
                                         ELSE @]]
    /\ UNCHANGED <<icloud, nextL, conn, logs, sched, settings, called, createdFor>>

\* the newest row of sync_logs instead of the run's own
LogRowLatest(r, table) == Len(table)

\* sync_log: the row the run inserted, committed and refreshed when it began
LogRow(r, table) == r.log

\* the end of run_sync: the last commits and the final values of the SyncLog row
\* a handler that rolls the session back before the log row is written
FinalPendingRollback(err, pend) == IF err # NoError THEN {} ELSE pend

\* the assignments the commit of line 318 flushes: the except block of lines
\* 308-312 does not roll back, so the ones made before the exception remain
FinalPending(err, pend) == pend

Finalize(p) ==
    /\ run[p].pc = "finish"
    /\ mappings' = Commit(FinalPending(run[p].err, run[p].pend), mappings)
    /\ logs' = [logs EXCEPT ![LogRow(run[p], logs)] =
                  [@ EXCEPT !.status = FinalStatus(run[p].err),
                            !.error_message = run[p].err,
                            !.tasks_synced = run[p].tasks_synced,
                            !.reminders_synced = run[p].reminders_synced,
                            !.completed_at = TRUE]]
    /\ run' = [run EXCEPT ![p] = [@ EXCEPT !.pend = {}, !.pc = "done"]]
    /\ UNCHANGED <<gmail, icloud, nextG, nextL, conn, sched, settings, called, budget, createdFor, streak>>

\* run_sync returns to its caller and the session is closed; for the job,
\* _run_sync_job returns to the scheduler
Return(p) ==
    /\ run[p].pc = "done"
    /\ run' = [run EXCEPT ![p] =
                 [IdleRun EXCEPT !.fireFailed =
                     p = "timer" /\ (run[p].fireFailed \/ run[p].err # NoError),
                                 !.failedBefore = run[p].createFailed]]
    /\ sched' = IF p = "timer" THEN JobOutcome(sched, run[p].err) ELSE sched
    /\ UNCHANGED <<gmail, icloud, nextG, nextL, conn, mappings, logs, settings, called,
                   budget, createdFor, streak>>

\* any step of the run of caller p
RunStep(p) ==
    \/ Check(p) \/ ListTasks(p) \/ ListReminders(p) \/ LoadMappings(p)
    \/ PhaseACompletion(p) \/ PhaseATitle(p) \/ PhaseAEnd(p)
    \/ NextTask(p) \/ ApplyTask(p) \/ NextReminder(p) \/ ApplyReminder(p)
    \/ Finalize(p) \/ Return(p)

(***************************************************************************)
(* What happens outside run_sync: the user edits the two stores, access to *)
(* a store is granted or lost, the application starts up, and the          *)
(* scheduler job is installed or removed through the API.                  *)
(***************************************************************************)
External ==
    /\ budget.ext > 0
    /\ budget' = [budget EXCEPT !.ext = @ - 1]
    /\ streak' = 0

UserTogglesTask(i) ==
    /\ External
    /\ gmail[i].present
    /\ gmail' = [gmail EXCEPT ![i].status = StatusOf(~IsCompleted(gmail[i]))]
    /\ UNCHANGED <<icloud, nextG, nextL, conn, mappings, logs, run, sched, settings, called, createdFor>>

UserTogglesReminder(j) ==
    /\ External
    /\ icloud[j].present
    /\ icloud' = [icloud EXCEPT ![j].completed = ~@]
    /\ UNCHANGED <<gmail, nextG, nextL, conn, mappings, logs, run, sched, settings, called, createdFor>>

UserDeletesTask(i) ==
    /\ External
    /\ gmail[i].present
    /\ gmail' = [gmail EXCEPT ![i] = NoTask]
    /\ UNCHANGED <<icloud, nextG, nextL, conn, mappings, logs, run, sched, settings, called, createdFor>>

UserDeletesReminder(j) ==
    /\ External
    /\ icloud[j].present
    /\ icloud' = [icloud EXCEPT ![j] = NoReminder]
    /\ UNCHANGED <<gmail, nextG, nextL, conn, mappings, logs, run, sched, settings, called, createdFor>>

UserAddsTask(s) ==
    /\ External
    /\ nextG <= MaxG
    /\ gmail' = [gmail EXCEPT ![nextG] = Task("a", "", s)]
    /\ nextG' = nextG + 1
    /\ UNCHANGED <<icloud, nextL, conn, mappings, logs, run, sched, settings, called, createdFor>>

UserAddsReminder(c) ==
    /\ External
    /\ nextL <= MaxL
    /\ icloud' = [icloud EXCEPT ![nextL] = Reminder("b", "", c)]
    /\ nextL' = nextL + 1
    /\ UNCHANGED <<gmail, nextG, conn, mappings, logs, run, sched, settings, called, createdFor>>

\* the titles a user gives to an existing item
Retitles == {"", "c"}

UserRetitlesTask(i, t) ==
    /\ External
    /\ gmail[i].present /\ gmail[i].title # t
    /\ gmail' = [gmail EXCEPT ![i].title = t]
    /\ UNCHANGED <<icloud, nextG, nextL, conn, mappings, logs, run, sched, settings, called,
                   createdFor>>

UserRetitlesReminder(j, t) ==
    /\ External
    /\ icloud[j].present /\ icloud[j].summary # t
    /\ icloud' = [icloud EXCEPT ![j].summary = t]
    /\ UNCHANGED <<gmail, nextG, nextL, conn, mappings, logs, run, sched, settings, called,
                   createdFor>>

\* the user writes notes on an item that has none, or clears them
UserEditsTaskNotes(i) ==
    /\ External
    /\ gmail[i].present
    /\ gmail' = [gmail EXCEPT ![i].notes = IF @ = "" THEN "n" ELSE ""]
    /\ UNCHANGED <<icloud, nextG, nextL, conn, mappings, logs, run, sched, settings, called,
                   createdFor>>

UserEditsReminderNotes(j) ==
    /\ External
    /\ icloud[j].present
    /\ icloud' = [icloud EXCEPT ![j].description = IF @ = "" THEN "n" ELSE ""]
    /\ UNCHANGED <<gmail, nextG, nextL, conn, mappings, logs, run, sched, settings, called,
                   createdFor>>

\* credentials or Reminders access are granted or lost, the list is set or unset
SetConnection(k) ==
    /\ External
    /\ conn' = [conn EXCEPT ![k] = ~@]
    /\ UNCHANGED <<gmail, icloud, nextG, nextL, mappings, logs, run, sched, settings, called, createdFor>>

Intervals == {15, 30}

\* main.lifespan up to the yield
Startup ==
    /\ called.op = "new"
    /\ LET r == lifespan(sched, settings)
       IN  /\ sched' = r.jobs
           /\ called' = Called("lifespan", settings, r.raised)
    /\ UNCHANGED <<gmail, icloud, nextG, nextL, conn, mappings, logs, run, settings,
                   budget, createdFor, streak>>

\* PUT /settings: the interval is persisted and the job restarted with it
update_settings(interval) ==
    /\ AppUp
    /\ External
    /\ settings' = interval
    /\ LET r == start_sync_job(sched, interval)
       IN  /\ sched' = r.jobs
           /\ called' = Called("start", interval, r.raised)
    /\ UNCHANGED <<gmail, icloud, nextG, nextL, conn, mappings, logs, run, createdFor>>

\* POST /scheduler/start: the persisted interval, 15 if there is none
start_scheduler ==
    /\ AppUp
    /\ External
    /\ LET interval == IF settings # 0 THEN settings ELSE 15
           r == start_sync_job(sched, interval)
       IN  /\ sched' = r.jobs
           /\ called' = Called("start", interval, r.raised)
    /\ UNCHANGED <<gmail, icloud, nextG, nextL, conn, mappings, logs, run, settings,
                   createdFor>>

\* POST /scheduler/stop
stop_scheduler ==
    /\ AppUp
    /\ External
    /\ LET r == stop_sync_job(sched)
       IN  /\ sched' = r.jobs
           /\ called' = Called("stop", 0, r.raised)
    /\ UNCHANGED <<gmail, icloud, nextG, nextL, conn, mappings, logs, run, settings,
                   createdFor>>

\* the user and the platform
Environment ==
    \/ \E i \in GIds : UserTogglesTask(i) \/ UserDeletesTask(i)
    \/ \E j \in LIds : UserTogglesReminder(j) \/ UserDeletesReminder(j)
    \/ \E i \in GIds : UserEditsTaskNotes(i) \/ \E t \in Retitles : UserRetitlesTask(i, t)
    \/ \E j \in LIds : UserEditsReminderNotes(j) \/ \E t \in Retitles : UserRetitlesReminder(j, t)
    \/ \E s \in {"needsAction", "completed"} : UserAddsTask(s)
    \/ \E c \in BOOLEAN : UserAddsReminder(c)
    \/ \E k \in {"google", "icloud", "calendar"} : SetConnection(k)

\* the scheduler endpoints of the API
SchedulerAPI ==
    \/ \E i \in Intervals : update_settings(i)
    \/ start_scheduler
    \/ stop_scheduler

(***************************************************************************)
(* Initial states: a fresh installation (no mapping, no log) in front of   *)
(* stores that already hold items.  The SyncScheduler has been constructed *)
(* (no job), the application has not started up yet, and an interval may   *)
(* be persisted from an earlier life of the process.                       *)
(***************************************************************************)
InitTaskChoices ==
    {NoTask, Task("a", "", "needsAction"), Task("a", "n", "completed"),
     Task("", "", "needsAction")}

InitReminderChoices ==
    {NoReminder, Reminder("b", "", FALSE), Reminder("b", "n", TRUE),
     Reminder("", "", FALSE)}

InitState(runs, fail, ext) ==
    /\ gmail \in {g \in [GIds -> InitTaskChoices] : \A i \in GIds : i > InitG => g[i] = NoTask}
    /\ icloud \in {l \in [LIds -> InitReminderChoices] : \A i \in LIds : i > InitL => l[i] = NoReminder}
    /\ nextG = InitG + 1
    /\ nextL = InitL + 1
    /\ conn = [google |-> TRUE, icloud |-> TRUE, calendar |-> TRUE]
    /\ mappings = <<>>
    /\ logs = <<>>
    /\ run = [p \in Procs |-> IdleRun]
    /\ sched = <<>>
    /\ settings \in {0} \cup {15}
    /\ called = Called("new", 0, FALSE)
    /\ budget = [runs |-> runs, fail |-> fail, ext |-> ext]
    /\ createdFor = [i \in GIds |-> 0]
    /\ streak = 0

\* no run_sync call is in progress
NoRun == \A p \in Procs : run[p].pc = "idle"

(***************************************************************************)
(* Spec: runs as the code permits them, the scheduler job and the HTTP     *)
(* handler each in a thread of its own, and the scheduler endpoints.       *)
(***************************************************************************)
Init == InitState(ConcRuns, ConcFail, ConcExt)

Next ==
    \/ \E d \in SyncDirection : RunSyncJob(d)
    \/ \E d \in SyncDirection : TriggerSync(d)
    \/ \E p \in Procs : RunStep(p)
    \/ SchedulerAPI
    \/ Startup

Spec == Init /\ [][Next]_vars

(***************************************************************************)
(* SeqSpec: the same actions, with run_sync calls one after the other.     *)
(***************************************************************************)
InitSeq == InitState(SeqRuns, SeqFail, SeqExt)

NextSeq ==
    \/ \E d \in SyncDirection : NoRun /\ RunSyncJob(d)
    \/ \E d \in SyncDirection : NoRun /\ TriggerSync(d)
    \/ \E p \in Procs : RunStep(p)
    \/ Environment
    \/ Startup

SeqSpec == InitSeq /\ [][NextSeq]_vars

(***************************************************************************)
(* LiveSpec: Spec without the scheduler endpoints, each thread that is     *)
(* inside run_sync keeps running.                                          *)
(***************************************************************************)
InitLive == InitState(LiveRuns, LiveFail, 0)

NextLive ==
    \/ \E d \in SyncDirection : RunSyncJob(d)
    \/ \E d \in SyncDirection : TriggerSync(d)
    \/ \E p \in Procs : RunStep(p)
    \/ Startup

LiveSpec == InitLive /\ [][NextLive]_vars /\ \A p \in Procs : WF_vars(RunStep(p))

(***************************************************************************)
(* StopSpec: Spec with each thread that is inside run_sync kept running,   *)
(* from the installations that hold one completed remote task and have an  *)
(* interval persisted.                                                     *)
(***************************************************************************)
InitStop ==
    /\ InitState(StopRuns, StopFail, StopExt)
    /\ gmail[1] = Task("a", "n", "completed")
    /\ icloud[1] = NoReminder
    /\ settings = 15

StopSpec == InitStop /\ [][Next]_vars /\ \A p \in Procs : WF_vars(RunStep(p))

(***************************************************************************)
(* Properties.                                                             *)
(***************************************************************************)
\* the run of caller p has ended and has not returned yet
Done(p) == run[p].pc = "done"

\* the rows of the table that hold remote id g
RowsOfGmailId(g) == {i \in DOMAIN mappings : mappings[i].gid = g}

\* C1: with run_sync calls one after the other, every remote task id has at
\* most one row of task_mappings and at most one reminder was created for it.
C1_NoDuplication ==
    \A g \in GIds : Cardinality(RowsOfGmailId(g)) <= 1 /\ createdFor[g] <= 1

\* a later run has met again a task whose reminder an earlier run created
C1_Witness ==
    \E p \in Procs : \E g \in GIds :
        /\ Done(p)
        /\ createdFor[g] = 1
        /\ run[p].gmap[g].present
        /\ FindByGmailId(run[p].startTable, g) # 0
        /\ run[p].dir = GMAIL_TO_ICLOUD

\* C2: a second bidirectional run right after a first one, with no change by
\* the user since the first began and no failed store call, issues no create
\* and no update call and leaves every row of task_mappings as it was.
C2_Idempotent ==
    \A p \in Procs :
        (Done(p) /\ run[p].dir = BIDIRECTIONAL /\ streak = 2)
            => /\ run[p].nCreate = 0
               /\ run[p].nUpdate = 0
               /\ mappings = run[p].startTable

\* a run is in progress for caller p
InProgress(p) == run[p].pc \notin {"idle", "done"}

\* C3: the runs started by the scheduler job and by POST /sync/trigger are
\* serialised: never two runs in progress at once, hence never two
\* counterparts created for one item.
C3_Serialized ==
    /\ Cardinality({p \in Procs : InProgress(p)}) <= 1
    /\ \A g \in GIds : createdFor[g] <= 1

\* the rows that the bidirectional run of p inserted for a remote task that
\* was completed in its snapshot
SeededCompleted(p) ==
    {i \in DOMAIN mappings :
        /\ i > Len(run[p].startTable)
        /\ run[p].gmap[mappings[i].gid].present
        /\ IsCompleted(run[p].gmap[mappings[i].gid])}

\* C4: the mapping a bidirectional run inserts for a completed remote task
\* has last_known_completed = TRUE in every committed state of the table.
C4_SeededFromFirstCommit ==
    \A p \in Procs :
        (run[p].dir = BIDIRECTIONAL /\ run[p].pc # "idle")
            => \A i \in SeededCompleted(p) : mappings[i].lkc

\* the items in the snapshot of the side a unidirectional run reads
SnapshotSize(r) ==
    IF r.dir = GMAIL_TO_ICLOUD THEN Cardinality({i \in GIds : r.gmap[i].present})
    ELSE Cardinality({i \in LIds : r.imap[i].present})

\* C5: when the update call for a mapped item fails, the mapping keeps its
\* last_known_completed and the item is not counted as synced.
C5_FailedUpdateKeepsBaseline ==
    \A p \in Procs :
        Done(p) =>
            /\ \A i \in run[p].updFailed : mappings[i].lkc = run[p].startTable[i].lkc
            /\ run[p].dir # BIDIRECTIONAL =>
                 run[p].tasks_synced + run[p].reminders_synced
                    <= SnapshotSize(run[p]) - Cardinality(run[p].updFailed)

\* C6: a failed update call in Phase A does not abort the run, which ends
\* with status success.
C6_PhaseAFailureContained ==
    \A p \in Procs :
        (Done(p) /\ run[p].aFailed) => logs[run[p].log].status = SUCCESS

\* the rows the run of p inserted
NewRows(p) == {i \in DOMAIN mappings : i > Len(run[p].startTable)}

\* C7: when the create call for an unmapped item fails, no mapping is
\* created for that item, every other unmapped item of the run whose create
\* call succeeds gets its counterpart and its mapping, and the run ends with
\* status success.
C7_CreateFailureIsolated ==
    \A p \in Procs :
        (Done(p) /\ run[p].createFailed # {}) =>
            /\ logs[run[p].log].status = SUCCESS
            /\ \A a \in GIds : <<"g", a>> \in run[p].createFailed => RowsOfGmailId(a) = {}
            /\ \A a \in LIds : <<"l", a>> \in run[p].createFailed
                                  => FindByICloudUid(mappings, a) = 0
            /\ \A b \in GIds :
                 ( /\ run[p].dir # ICLOUD_TO_GMAIL
                   /\ run[p].gmap[b].present
                   /\ FindByGmailId(run[p].startTable, b) = 0
                   /\ <<"g", b>> \notin run[p].createFailed )
                 => \E i \in NewRows(p) :
                        mappings[i].gid = b /\ mappings[i].lid # 0 /\ createdFor[b] = 1
            /\ \A b \in LIds :
                 ( /\ run[p].dir # GMAIL_TO_ICLOUD
                   /\ run[p].imap[b].present
                   /\ FindByICloudUid(run[p].startTable, b) = 0
                   /\ <<"l", b>> \notin run[p].createFailed )
                 => \E i \in NewRows(p) :
                        mappings[i].lid = b /\ ~run[p].gmap[mappings[i].gid].present

\* a run in which one create call failed and another inserted a mapping
C7_Witness ==
    \E p \in Procs : Done(p) /\ run[p].createFailed # {} /\ NewRows(p) # {}

\* the run_sync calls made so far under LiveSpec
CallsMade == LiveRuns - budget.runs

PreconditionUnmet(p) ==
    ~run[p].seen.google \/ ~run[p].seen.icloud \/ ~run[p].seen.calendar

\* C9: a run whose connection checks find a precondition unmet issues no
\* list, create or update call, changes no mapping, and ends with status
\* failed, an error message naming an unmet precondition and both counts 0.
C9_PreconditionGate ==
    \A p \in Procs :
        (Done(p) /\ PreconditionUnmet(p)) =>
            /\ run[p].nList = 0 /\ run[p].nCreate = 0 /\ run[p].nUpdate = 0
            /\ mappings = run[p].startTable
            /\ logs[run[p].log].status = FAILED
            /\ \/ logs[run[p].log].error_message = ErrGoogle /\ ~run[p].seen.google
               \/ logs[run[p].log].error_message = ErrICloud /\ ~run[p].seen.icloud
               \/ logs[run[p].log].error_message = ErrCalendar /\ ~run[p].seen.calendar
            /\ logs[run[p].log].tasks_synced = 0
            /\ logs[run[p].log].reminders_synced = 0

\* such a run has ended in front of a table that holds a mapping
C9_Witness ==
    \E p \in Procs : Done(p) /\ PreconditionUnmet(p) /\ mappings # <<>>

\* C10: in every state of task_mappings no two rows share a gmail_task_id,
\* no two rows share a non-null icloud_reminder_uid, and no row has both ids
\* empty.
C10_MappingInvariant ==
    /\ \A i, j \in DOMAIN mappings :
          i # j => /\ mappings[i].gid # mappings[j].gid
                   /\ mappings[i].lid # 0 => mappings[i].lid # mappings[j].lid
    /\ \A i \in DOMAIN mappings : ~(mappings[i].gid = 0 /\ mappings[i].lid = 0)

\* two runs each created a task for one reminder and one INSERT was rejected
C10_Witness ==
    Cardinality({g \in GIds : g > InitG /\ gmail[g].present})
        > Cardinality({i \in DOMAIN mappings : mappings[i].gid > InitG})

\* the run of p is about to issue an update or a create call on a store
AtStoreCall(p) ==
    \/ run[p].pc \in {"phaseA_title", "g_apply", "l_apply"}
    \/ run[p].pc = "phaseA" /\ PairsLeft(run[p]) # {}

\* C11: every change a run makes to a mapping (the last_known_completed set
\* in Phase A, the baseline set after a helper returned) is committed before
\* the run issues its next store call.
C11_CommittedBeforeNextCall ==
    \A p \in Procs : AtStoreCall(p) => run[p].pend = {}

\* what Phase A compares for row i of the mappings the run of p loaded
GmailCompleted(p, i) == IsCompleted(run[p].gmap[run[p].mlist[i].gid])
ICloudCompleted(p, i) == run[p].imap[run[p].mlist[i].lid].completed
LastKnown(p, i) == run[p].mlist[i].lkc

\* this step is the completion reconciliation of a pair by p, ended normally
CompletionStep(p) == run[p].pc = "phaseA" /\ run'[p].pc = "phaseA_title"

\* C12: in Phase A, when exactly one side's completion differs from
\* last_known_completed, that side's value is written to the other side only,
\* by one update call, and becomes the mapping's last_known_completed.
C12_OneSideChanged ==
    [][\A p \in Procs :
         CompletionStep(p) =>
           LET i == run'[p].cur
               row == run[p].mlist[i]
               gc == GmailCompleted(p, i)
               ic == ICloudCompleted(p, i)
               lk == LastKnown(p, i)
           IN  /\ (gc # lk /\ ic = lk) =>
                    /\ icloud' = [icloud EXCEPT ![row.lid].completed = gc]
                    /\ gmail' = gmail
                    /\ run'[p].nUpdate = run[p].nUpdate + 1
                    /\ <<i, gc>> \in run'[p].pend
               /\ (ic # lk /\ gc = lk) =>
                    /\ gmail' = [gmail EXCEPT ![row.gid].status = StatusOf(ic)]
                    /\ icloud' = icloud
                    /\ run'[p].nUpdate = run[p].nUpdate + 1
                    /\ <<i, ic>> \in run'[p].pend]_vars

\* the remote task alone was completed since the baseline, and the reminder
\* has been completed by the run
C12_Witness ==
    \E p \in Procs :
        /\ run[p].pc = "phaseA_title"
        /\ GmailCompleted(p, run[p].cur) /\ ~LastKnown(p, run[p].cur)
        /\ ~ICloudCompleted(p, run[p].cur)
        /\ icloud[run[p].mlist[run[p].cur].lid].completed
        /\ <<run[p].cur, TRUE>> \in run[p].pend

\* this step is p handling the next pair of Phase A, whatever the outcome
PairStep(p) == run[p].pc = "phaseA" /\ PairsLeft(run[p]) # {} /\ run'[p] # run[p]

\* C13: in Phase A, when both sides' completion differs from
\* last_known_completed and the two sides agree, no update call carrying a
\* completion is issued, both stores are left alone and last_known_completed
\* is set to the agreed value.
C13_BothChangedAgree ==
    [][\A p \in Procs :
         PairStep(p) =>
           LET i == Min(PairsLeft(run[p]))
               gc == GmailCompleted(p, i)
               ic == ICloudCompleted(p, i)
               lk == LastKnown(p, i)
           IN  (gc # lk /\ ic # lk /\ gc = ic) =>
                  /\ run'[p].pc = "phaseA_title"
                  /\ gmail' = gmail /\ icloud' = icloud
                  /\ run'[p].nUpdate = run[p].nUpdate
                  /\ <<i, gc>> \in run'[p].pend]_vars

\* both sides are open while the baseline says completed
C13_Witness ==
    \E p \in Procs :
        /\ run[p].pc = "phaseA_title"
        /\ LastKnown(p, run[p].cur)
        /\ ~GmailCompleted(p, run[p].cur) /\ ~ICloudCompleted(p, run[p].cur)
        /\ <<run[p].cur, FALSE>> \in run[p].pend

\* C14 as stated, read where Phase A handles a pair: some remote, local and
\* baseline values take the both-changed branch while the two sides disagree;
\* there the final value is remote OR local, it becomes last_known_completed
\* and exactly the side that does not hold it gets a completion push.
C14_DisagreeReachable ==
    \A p \in Procs :
        run[p].pc = "phaseA_title" =>
            \E gc, ic, lk \in BOOLEAN :
                LET res == Resolve(gc, ic, lk)
                IN  /\ res.branch = "both" /\ gc # ic
                    /\ res.lkc = (gc \/ ic)
                    /\ Len(res.calls) = 1
                    /\ res.calls[1].val = (gc \/ ic)
                    /\ res.calls[1].side = (IF gc THEN "icloud" ELSE "gmail")

\* C14: in Phase A, whenever the both-changed branch is taken the two sides
\* agree (the baseline is a boolean, so two values that both differ from it
\* are equal): the final value remote OR local is that common value, no
\* completion push is issued and last_known_completed becomes the final value.
C14_BothChangedNeverDisagree ==
    \A p \in Procs :
        run[p].pc = "phaseA_title" =>
            LET i == run[p].cur
                res == Resolve(GmailCompleted(p, i), ICloudCompleted(p, i), LastKnown(p, i))
            IN  res.branch = "both" =>
                  /\ GmailCompleted(p, i) = ICloudCompleted(p, i)
                  /\ res.calls = <<>>
                  /\ <<i, GmailCompleted(p, i) \/ ICloudCompleted(p, i)>> \in run[p].pend

\* the both-changed branch has been taken for a pair
C14_Witness ==
    \E p \in Procs :
        /\ run[p].pc = "phaseA_title"
        /\ Resolve(GmailCompleted(p, run[p].cur), ICloudCompleted(p, run[p].cur),
                   LastKnown(p, run[p].cur)).branch = "both"
        /\ run[p].nUpdate = 0

\* C15: whatever start and stop calls were made, the scheduler holds at most
\* one job; after a start it holds exactly the job with the interval of that
\* start, also when a job was installed before; after a stop it holds none;
\* no call raises, a stop with no job installed included.
C15_SchedulerStateMachine ==
    /\ Len(sched) <= 1
    /\ ~called.raised
    /\ called.op = "start" =>
          sched = <<[id |-> JobId, minutes |-> called.minutes]>> /\ is_running(sched)
    /\ called.op = "stop" => sched = <<>> /\ ~is_running(sched)

\* a start made while a job with another interval was installed
C15_Witness ==
    /\ called.op = "start" /\ called.running
    /\ called.minutes = 30
    /\ sched = <<[id |-> JobId, minutes |-> 30]>>

\* C16: a constructed SyncScheduler holds no job until the application starts
\* up; once lifespan has run, the job is installed if and only if
\* sync_interval_minutes is persisted, and then with the persisted interval.
C16_StartupFromSettings ==
    /\ called.op = "new" => sched = <<>>
    /\ called.op = "lifespan" =>
          /\ is_running(sched) <=> settings # 0
          /\ ~called.running
          /\ settings # 0 => sched = <<[id |-> JobId, minutes |-> settings]>>

\* the application started up with no interval persisted and installed no job
C16_Witness ==
    called.op = "lifespan" /\ settings = 0 /\ sched = <<>> /\ logs # <<>>

\* C17: no step of a run of the job, its return to the scheduler included,
\* changes the jobs of the scheduler, whether the run fails or not; and
\* whenever the job is installed and no run of it is in progress, it can fire.
C17_FailedFireKeepsJob ==
    /\ [][run'["timer"] # run["timer"] => sched' = sched]_vars
    /\ [](( is_running(sched) /\ run["timer"].pc = "idle" /\ budget.runs > 0)
             => ENABLED RunSyncJob(BIDIRECTIONAL))

\* a fire ended with status failed, returned, and the job is still installed
\* and fires again
C17_Witness ==
    /\ run["timer"].fireFailed
    /\ run["timer"].pc = "check"
    /\ is_running(sched)

\* this step is a call of stop_sync_job through POST /scheduler/stop
StopStep == called'.op = "stop" /\ budget'.ext # budget.ext

\* this step is a fire of the job
FireStep == run["timer"].pc = "idle" /\ run'["timer"].pc # "idle"

NoFailure(p) ==
    /\ run[p].err = NoError /\ ~run[p].aFailed
    /\ run[p].updFailed = {} /\ run[p].createFailed = {} /\ run[p].conflicts = {}

\* nobody but the run of p changed a store or a connection since it began
Undisturbed(p) == run[p].pc # "idle" /\ budget.ext = run[p].budget0.ext

\* the rows the run of p dealt with: the ones it inserted, and the loaded
\* ones whose item is in the snapshot the direction reads
Processed(p) ==
    LET r == run[p]
        old == DOMAIN r.startTable
    IN  NewRows(p) \cup
        CASE r.dir = BIDIRECTIONAL ->
                 {i \in DOMAIN r.mlist :
                      r.gmap[r.mlist[i].gid].present /\ r.imap[r.mlist[i].lid].present}
          [] r.dir = GMAIL_TO_ICLOUD -> {i \in old : r.gmap[r.startTable[i].gid].present}
          [] OTHER -> {i \in old : r.imap[r.startTable[i].lid].present}

\* C21: after a run in which no store call failed and nobody else edited
\* the stores, every mapping the run processed or created has a
\* last_known_completed equal to the completion of both of its items.
C21_BaselineMatchesBothSides ==
    \A p \in Procs :
        (Done(p) /\ NoFailure(p) /\ Undisturbed(p)) =>
            \A i \in Processed(p) :
                /\ mappings[i].lkc = IsCompleted(gmail[mappings[i].gid])
                /\ mappings[i].lkc = icloud[mappings[i].lid].completed

\* this step is the title push of Phase A for the pair run[p].cur
TitleStep(p) == run[p].pc = "phaseA_title" /\ run'[p].pc = "phaseA"

\* C22: in Phase A, for a pair where neither side's completion differs from
\* last_known_completed, no update call carrying a completion is issued, the
\* completion of both items is left as it was by the pair's two steps, and no
\* assignment to last_known_completed is made.
C22_UnchangedPairLeftAlone ==
    [][\A p \in Procs :
         /\ PairStep(p) =>
               LET i == Min(PairsLeft(run[p]))
               IN  (GmailCompleted(p, i) = LastKnown(p, i)
                      /\ ICloudCompleted(p, i) = LastKnown(p, i)) =>
                        /\ run'[p].pc = "phaseA_title"
                        /\ gmail' = gmail /\ icloud' = icloud
                        /\ run'[p].nUpdate = run[p].nUpdate
                        /\ run'[p].pend = run[p].pend
         /\ TitleStep(p) =>
               LET i == run[p].cur
                   row == run[p].mlist[i]
               IN  (GmailCompleted(p, i) = LastKnown(p, i)
                      /\ ICloudCompleted(p, i) = LastKnown(p, i)) =>
                        /\ gmail' = gmail
                        /\ icloud'[row.lid].completed = icloud[row.lid].completed
                        /\ run'[p].pend = run[p].pend
                        /\ mappings' = mappings]_vars

\* a pair whose two sides are completed like the baseline has had its title
\* pushed, and the run holds no assignment for it
C22_Witness ==
    \E p \in Procs :
        /\ run[p].pc = "phaseA" /\ run[p].idx > run[p].cur /\ run[p].cur > 0
        /\ GmailCompleted(p, run[p].cur) /\ ICloudCompleted(p, run[p].cur)
        /\ LastKnown(p, run[p].cur)
        /\ \A v \in BOOLEAN : <<run[p].cur, v>> \notin run[p].pend

\* C23: in Phase A every mapped pair present in both snapshots has the
\* reminder's title and notes overwritten with the task's, whatever the
\* completion classification and also when the task's notes are empty, and no
\* step of a bidirectional run changes the title or the notes of a task.
C23_ContentFlowsRemoteToLocal ==
    /\ [][\A p \in Procs :
            /\ (PairStep(p) /\ run'[p].err = NoError) => run'[p].pc = "phaseA_title"
            /\ TitleStep(p) =>
                  LET row == run[p].mlist[run[p].cur]
                      task == run[p].gmap[row.gid]
                  IN  icloud' = [icloud EXCEPT ![row.lid].summary = task.title,
                                               ![row.lid].description = task.notes]
            /\ (run[p].dir = BIDIRECTIONAL /\ run'[p] # run[p]) =>
                  \A g \in GIds :
                      gmail[g].present =>
                          /\ gmail'[g].title = gmail[g].title
                          /\ gmail'[g].notes = gmail[g].notes]_vars
    /\ [](\A p \in Procs :
            (Done(p) /\ run[p].dir = BIDIRECTIONAL /\ run[p].err = NoError
               /\ Undisturbed(p)) =>
                \A i \in Processed(p) \ NewRows(p) :
                    /\ icloud[mappings[i].lid].summary = run[p].gmap[mappings[i].gid].title
                    /\ icloud[mappings[i].lid].description
                          = run[p].gmap[mappings[i].gid].notes)

\* a pair classified as changed whose reminder held other notes than the
\* task when it was listed, and holds the task's notes after the title push
C23_Witness ==
    \E p \in Procs :
        /\ run[p].pc = "phaseA" /\ run[p].cur > 0 /\ run[p].idx > run[p].cur
        /\ LET i == run[p].cur
               row == run[p].mlist[i]
           IN  /\ Resolve(GmailCompleted(p, i), ICloudCompleted(p, i),
                          LastKnown(p, i)).branch # "none"
               /\ run[p].imap[row.lid].description # run[p].gmap[row.gid].notes
               /\ run[p].gmap[row.gid].notes = ""
               /\ icloud[row.lid].description = ""
               /\ icloud[row.lid].summary = run[p].gmap[row.gid].title

\* the reminders of p's snapshot that had no mapping when the run began
UnmappedReminders(p) ==
    {l \in LIds : run[p].imap[l].present /\ FindByICloudUid(run[p].startTable, l) = 0}

\* the tasks of p's snapshot that had no mapping when the run began
UnmappedTasks(p) ==
    {g \in GIds : run[p].gmap[g].present /\ FindByGmailId(run[p].startTable, g) = 0}

\* C24: after a bidirectional run in which no store call failed and nobody
\* else edited the stores, every task and every reminder of the snapshots has
\* a mapping with both ids; each reminder that had none has exactly one new
\* mapping, to a task created in the run with the reminder's completion, and
\* that mapping's last_known_completed is that completion; one create call
\* was made per item that had no mapping.
C24_EverySnapshotItemMapped ==
    \A p \in Procs :
        (Done(p) /\ run[p].dir = BIDIRECTIONAL /\ NoFailure(p) /\ Undisturbed(p)) =>
            /\ \A g \in GIds : run[p].gmap[g].present =>
                   \E i \in DOMAIN mappings : mappings[i].gid = g /\ mappings[i].lid # 0
            /\ \A l \in LIds : run[p].imap[l].present =>
                   \E i \in DOMAIN mappings : mappings[i].lid = l /\ mappings[i].gid # 0
            /\ \A l \in UnmappedReminders(p) :
                   /\ Cardinality({i \in DOMAIN mappings : mappings[i].lid = l}) = 1
                   /\ \E i \in NewRows(p) :
                         /\ mappings[i].lid = l
                         /\ ~run[p].gmap[mappings[i].gid].present
                         /\ gmail[mappings[i].gid].present
                         /\ IsCompleted(gmail[mappings[i].gid]) = run[p].imap[l].completed
                         /\ mappings[i].lkc = run[p].imap[l].completed
            /\ run[p].nCreate = Cardinality(UnmappedTasks(p))
                                  + Cardinality(UnmappedReminders(p))

\* a completed reminder that had no mapping has one to a completed task
C24_Witness ==
    \E p \in Procs :
        /\ Done(p) /\ run[p].dir = BIDIRECTIONAL /\ NoFailure(p) /\ Undisturbed(p)
        /\ \E l \in UnmappedReminders(p) :
              /\ run[p].imap[l].completed
              /\ \E i \in NewRows(p) :
                    mappings[i].lid = l /\ IsCompleted(gmail[mappings[i].gid])
                      /\ mappings[i].lkc

\* C25: after an icloud_to_gmail run in which no store call failed and nobody
\* else edited the stores, the task of every reminder that had a mapping has
\* the reminder's title, notes and completion, also when the reminder's notes
\* are empty.
C25_LocalOverwritesRemote ==
    \A p \in Procs :
        (Done(p) /\ run[p].dir = ICLOUD_TO_GMAIL /\ NoFailure(p) /\ Undisturbed(p)) =>
            \A i \in Processed(p) \ NewRows(p) :
                LET task == gmail[mappings[i].gid]
                    rem == icloud[mappings[i].lid]
                IN  /\ task.title = rem.summary
                    /\ task.notes = rem.description
                    /\ IsCompleted(task) = rem.completed

\* the pairs of Phase A that p dealt with completely before the one at which
\* Phase A failed
PairsBeforeFailure(p) ==
    {i \in DOMAIN run[p].mlist :
        /\ i < run[p].idx
        /\ run[p].gmap[run[p].mlist[i].gid].present
        /\ run[p].imap[run[p].mlist[i].lid].present}

\* C26: when Phase A raised at some pair and nobody else edited the stores,
\* the run ends failed, and for every pair handled before that one the
\* completion pushed to a store is still there and the mapping table holds
\* the last_known_completed the run assigned.
C26_EarlierPairsPersist ==
    \A p \in Procs :
        (Done(p) /\ run[p].aFailed /\ Undisturbed(p)) =>
            /\ logs[run[p].log].status = FAILED
            /\ \A i \in PairsBeforeFailure(p) :
                  LET row == run[p].mlist[i]
                      res == Resolve(GmailCompleted(p, i), ICloudCompleted(p, i),
                                     LastKnown(p, i))
                  IN  /\ mappings[i].lkc = res.lkc
                      /\ res.branch = "gmail" =>
                            icloud[row.lid].completed = GmailCompleted(p, i)
                      /\ res.branch = "icloud" =>
                            IsCompleted(gmail[row.gid]) = ICloudCompleted(p, i)

\* Phase A failed at the second pair after the first pair's completion was
\* pushed, and the first pair's new baseline is in the table
C26_Witness ==
    \E p \in Procs :
        /\ Done(p) /\ run[p].aFailed /\ Undisturbed(p)
        /\ logs[run[p].log].status = FAILED
        /\ \E i \in PairsBeforeFailure(p) :
              /\ Resolve(GmailCompleted(p, i), ICloudCompleted(p, i),
                         LastKnown(p, i)).branch \in {"gmail", "icloud"}
              /\ mappings[i].lkc # run[p].startTable[i].lkc

\* the run of p reads the side ("g" or "l") of an item
Reads(p, side) ==
    run[p].dir = BIDIRECTIONAL
      \/ (side = "g" /\ run[p].dir = GMAIL_TO_ICLOUD)
      \/ (side = "l" /\ run[p].dir = ICLOUD_TO_GMAIL)

\* item a of the given side is in p's snapshot and had no mapping at the start
StillUnmapped(p, side, a) ==
    IF side = "g" THEN a \in UnmappedTasks(p) ELSE a \in UnmappedReminders(p)

\* C27: an item whose create call failed in the caller's previous run, and
\* that the next run finds in its snapshot still without a mapping, has its
\* create call issued again by that run (it has a mapping at the end, or the
\* call failed again), also when an update call for another, mapped item
\* failed in that run.
C27_FailedCreateRetried ==
    \A p \in Procs :
        Done(p) =>
            \A x \in run[p].failedBefore :
                (Reads(p, x[1]) /\ StillUnmapped(p, x[1], x[2])) =>
                    \/ x \in run[p].createFailed \cup run[p].conflicts
                    \/ x[1] = "g" /\ RowsOfGmailId(x[2]) # {}
                    \/ x[1] = "l" /\ FindByICloudUid(mappings, x[2]) # 0

\* the unmapped items of one side whose create call failed in the run of p
FailedCreates(p, side) == {x \in run[p].createFailed \cup run[p].conflicts : x[1] = side}

\* C28: at the end of a bidirectional run that was not aborted, tasks_synced
\* is the number of mapped pairs present in both snapshots plus the number of
\* unmapped tasks whose reminder was created, reminders_synced is the number
\* of unmapped reminders whose task was created, an item whose create call
\* failed is in neither, and the log row holds the two numbers.
C28_CountsOfCompletedRun ==
    \A p \in Procs :
        (Done(p) /\ run[p].dir = BIDIRECTIONAL /\ run[p].err = NoError) =>
            LET pairs == {i \in DOMAIN run[p].mlist :
                             /\ run[p].gmap[run[p].mlist[i].gid].present
                             /\ run[p].imap[run[p].mlist[i].lid].present}
            IN  /\ run[p].tasks_synced =
                      Cardinality(pairs) + Cardinality(UnmappedTasks(p))
                        - Cardinality(FailedCreates(p, "g"))
                /\ run[p].reminders_synced =
                      Cardinality(UnmappedReminders(p)) - Cardinality(FailedCreates(p, "l"))
                /\ logs[run[p].log].tasks_synced = run[p].tasks_synced
                /\ logs[run[p].log].reminders_synced = run[p].reminders_synced

\* a run with a mapped pair, a created counterpart and a failed create call
C28_Witness ==
    \E p \in Procs :
        /\ Done(p) /\ run[p].dir = BIDIRECTIONAL /\ run[p].err = NoError
        /\ run[p].createFailed # {}
        /\ run[p].tasks_synced + run[p].reminders_synced >= 2
        /\ \E i \in DOMAIN run[p].mlist :
              run[p].gmap[run[p].mlist[i].gid].present
                /\ run[p].imap[run[p].mlist[i].lid].present

\* the present items with an empty title on a side the run of p reads
EmptyTasks(p) ==
    {g \in GIds : Reads(p, "g") /\ gmail[g].present /\ gmail[g].title = ""}
EmptyReminders(p) ==
    {l \in LIds : Reads(p, "l") /\ icloud[l].present /\ icloud[l].summary = ""}

\* the run of p issued an update call for the item id of the given side
UpdateIssued(p, side, id) == \E u \in run[p].updates : u.side = side /\ u.id = id

\* what holds of the empty-titled items of the sides the run of p reads: they
\* are in no snapshot, no create call was made and no mapping inserted for
\* them, no update call was issued for their counterparts, and the counters
\* count snapshot items only
EmptySkipped(p) ==
    /\ \A g \in GIds : run[p].gmap[g].present => run[p].gmap[g].title # ""
    /\ \A l \in LIds : run[p].imap[l].present => run[p].imap[l].summary # ""
    /\ \A g \in EmptyTasks(p) :
          /\ \A i \in NewRows(p) : mappings[i].gid # g
          /\ <<"g", g>> \notin run[p].createFailed \cup run[p].conflicts
          /\ \A i \in RowsOfGmailId(g) : ~UpdateIssued(p, "l", mappings[i].lid)
    /\ \A l \in EmptyReminders(p) :
          /\ \A i \in NewRows(p) : mappings[i].lid # l
          /\ <<"l", l>> \notin run[p].createFailed \cup run[p].conflicts
          /\ \A i \in DOMAIN mappings :
                mappings[i].lid = l => ~UpdateIssued(p, "g", mappings[i].gid)
    /\ run[p].tasks_synced <= Cardinality({g \in GIds : run[p].gmap[g].present})
    /\ run[p].reminders_synced <= Cardinality({l \in LIds : run[p].imap[l].present})

\* C29 as stated: in every direction an item with an empty title is left out
\* of the snapshot, gets no counterpart and no mapping, is not counted, and
\* no update call is issued for it or for its counterpart.
C29_EmptyTitleNeverUpdated ==
    \A p \in Procs :
        Undisturbed(p) =>
            /\ EmptySkipped(p)
            /\ \A u \in run[p].updates : ~u.empty

\* C29 amended: the same for the sides a run reads; an update call is issued
\* for an item with an empty title only by a unidirectional run that does not
\* list the item's side, which overwrites it from its mapped counterpart.
C29_EmptyTitleSkippedWhereListed ==
    \A p \in Procs :
        Undisturbed(p) =>
            /\ EmptySkipped(p)
            /\ \A u \in run[p].updates :
                  u.empty =>
                      /\ ~Reads(p, u.side)
                      /\ run[p].dir # BIDIRECTIONAL
                      /\ \E i \in DOMAIN mappings :
                            IF u.side = "g"
                            THEN mappings[i].gid = u.id
                                   /\ run[p].imap[mappings[i].lid].present
                            ELSE mappings[i].lid = u.id
                                   /\ run[p].gmap[mappings[i].gid].present

\* a gmail_to_icloud run that listed a task without a title next to a mapped
\* one, and an icloud_to_gmail run that updated a task without a title
C29_Witness ==
    \E p \in Procs :
        /\ Done(p) /\ Undisturbed(p)
        /\ \/ /\ run[p].dir = ICLOUD_TO_GMAIL
              /\ \E u \in run[p].updates : u.empty /\ u.side = "g"
           \/ /\ run[p].dir = GMAIL_TO_ICLOUD
              /\ \E u \in run[p].updates : u.empty /\ u.side = "l"

\* C30: in the second of two bidirectional runs with no edit by anybody and
\* no failed call since the first one began, a task that was completed when
\* the run listed it is still completed in Google Tasks.
C30_CompletedStaysCompleted ==
    \A p \in Procs :
        (run[p].dir = BIDIRECTIONAL /\ run[p].pc # "idle" /\ streak = 2) =>
            \A g \in GIds :
                (run[p].gmap[g].present /\ IsCompleted(run[p].gmap[g]))
                    => IsCompleted(gmail[g])

(***************************************************************************)
(* Claims C31 to C33                                                       *)
(***************************************************************************)

\* the loaded mappings of p with an item missing from the snapshots
Orphans(p) ==
    {i \in DOMAIN run[p].mlist :
        \/ ~run[p].gmap[run[p].mlist[i].gid].present
        \/ ~run[p].imap[run[p].mlist[i].lid].present}

\* C31: in a bidirectional run, for a loaded mapping whose task or reminder
\* is not in the snapshots, no update call is issued for either item, no
\* create call is made and no mapping inserted for either item, every
\* create call of the run is for an item that had no mapping, and the row
\* stays as it was when the run began.
C31_OrphanPairLeftAlone ==
    \A p \in Procs :
        (run[p].dir = BIDIRECTIONAL /\ run[p].pc # "idle") =>
            /\ \A i \in Orphans(p) :
                  LET row == run[p].mlist[i]
                  IN  /\ ~UpdateIssued(p, "g", row.gid)
                      /\ ~UpdateIssued(p, "l", row.lid)
                      /\ <<"g", row.gid>> \notin run[p].createFailed \cup run[p].conflicts
                      /\ <<"l", row.lid>> \notin run[p].createFailed \cup run[p].conflicts
                      /\ \A k \in NewRows(p) :
                            mappings[k].gid # row.gid /\ mappings[k].lid # row.lid
                      /\ mappings[i] = run[p].startTable[i]
            /\ run[p].nCreate <= Cardinality(UnmappedTasks(p))
                                    + Cardinality(UnmappedReminders(p))

\* a finished bidirectional run that listed a task whose mapped reminder was
\* gone, and one that listed a reminder whose mapped task was gone
C31_Witness ==
    \E p \in Procs :
        /\ Done(p) /\ run[p].dir = BIDIRECTIONAL /\ run[p].err = NoError
        /\ \E i \in Orphans(p) :
              \/ run[p].gmap[run[p].mlist[i].gid].present
              \/ run[p].imap[run[p].mlist[i].lid].present

\* this step is a step of the run of p
StepOf(p) == run[p].pc # "idle" /\ run'[p] # run[p]

\* C32: no step of a gmail_to_icloud run changes Google Tasks, issues an
\* update call for a task or gives a mapping to a reminder that exists, and
\* no step of an icloud_to_gmail run changes the reminder store, issues an
\* update call for a reminder or gives a mapping to a task that exists.
C32_UnidirectionalWritesTargetOnly ==
    [][\A p \in Procs :
         /\ (StepOf(p) /\ run[p].dir = GMAIL_TO_ICLOUD) =>
               /\ gmail' = gmail /\ nextG' = nextG
               /\ \A u \in run'[p].updates : u.side = "l"
               /\ \A l \in LIds : icloud[l].present =>
                     FindByICloudUid(mappings', l) = FindByICloudUid(mappings, l)
         /\ (StepOf(p) /\ run[p].dir = ICLOUD_TO_GMAIL) =>
               /\ icloud' = icloud /\ nextL' = nextL
               /\ \A u \in run'[p].updates : u.side = "g"
               /\ \A g \in GIds : gmail[g].present =>
                     FindByGmailId(mappings', g) = FindByGmailId(mappings, g)]_vars

\* a finished gmail_to_icloud run that created and updated reminders next to
\* a reminder without a mapping, or the same for icloud_to_gmail
C32_Witness ==
    \E p \in Procs :
        /\ Done(p) /\ run[p].err = NoError
        /\ run[p].nCreate + run[p].nUpdate >= 2
        /\ \/ /\ run[p].dir = GMAIL_TO_ICLOUD
              /\ \E l \in LIds : icloud[l].present /\ icloud[l].summary # ""
                                    /\ FindByICloudUid(mappings, l) = 0
           \/ /\ run[p].dir = ICLOUD_TO_GMAIL
              /\ \E g \in GIds : gmail[g].present /\ gmail[g].title # ""
                                    /\ FindByGmailId(mappings, g) = 0

\* C33: no step removes a row of task_mappings or changes the
\* gmail_task_id or icloud_reminder_uid of a row that has both; every row
\* of every state has both ids; and the step that inserts a row is the step
\* whose create call made the item one of its ids names.
C33_TableGrowsIdsStable ==
    /\ [](\A i \in DOMAIN mappings : mappings[i].gid # 0 /\ mappings[i].lid # 0)
    /\ [][/\ Len(mappings') >= Len(mappings)
          /\ \A i \in DOMAIN mappings :
                (mappings[i].gid # 0 /\ mappings[i].lid # 0) =>
                    /\ mappings'[i].gid = mappings[i].gid
                    /\ mappings'[i].lid = mappings[i].lid
          /\ \A k \in DOMAIN mappings' \ DOMAIN mappings :
                \/ /\ mappings'[k].lid = nextL /\ nextL' = nextL + 1
                   /\ ~icloud[nextL].present /\ icloud'[nextL].present
                \/ /\ mappings'[k].gid = nextG /\ nextG' = nextG + 1
                   /\ ~gmail[nextG].present /\ gmail'[nextG].present]_vars

\* a finished run that updated the item of a row it found and inserted a
\* row of its own
C33_Witness ==
    \E p \in Procs :
        /\ Done(p) /\ run[p].nUpdate > 0
        /\ run[p].startTable # <<>> /\ NewRows(p) # {}
        /\ \A i \in DOMAIN run[p].startTable :
              /\ mappings[i].gid = run[p].startTable[i].gid
              /\ mappings[i].lid = run[p].startTable[i].lid
====
